---- MODULE Spec2Model ----
(***************************************************************************)
(* chuniio-backflow: the DLL's process-wide state (GLOBAL_STATE behind one *)
(* Mutex), the connection manager (send_message_with_recovery,             *)
(* recover_connection, send_message), the JVS entry points and the slider  *)
(* streaming loop, as a state machine of concurrently running threads.     *)
(*                                                                         *)
(* Threads are the game's calling threads (Callers), the threads spawned   *)
(* by chuni_io_slider_start (Loops) and the threads spawned by             *)
(* chuni_io_led_set_colors (Workers).  A thread's step is one              *)
(* critical section of the source (lock .. drop) or one transport          *)
(* operation; the outcome of a transport operation is chosen by the        *)
(* environment.                                                            *)
(***************************************************************************)
EXTENDS Integers, FiniteSets, Sequences, TLC

\* ------------------------------------------------------------------ bounds
MaxBits == 1
MaxCoin == 1
MaxPressure == 1
NumCallbacks == 2
MaxColor == 1
MaxRgbLen == 257
MaxBoard == 3
ShortLen == 100

\* The game's threads, and the slots of the threads chuni_io_slider_start
\* spawns (a slot is reused once its thread has ended).
Callers == {1, 2}
Loops == {101, 102}
Units == Callers \cup Loops
\* The slots of the threads chuni_io_led_set_colors spawns.
Workers == {201, 202}
Threads == Units \cup Workers
Free == 0
Callbacks == 1..NumCallbacks
\* Socket handles are named by who holds them: Installed is the one in
\* GlobalState.socket, Pending(u) the one thread u's recover_connection has
\* connected and not yet installed.
Installed == 1
Pending(u) == 1 + u

VARIABLES
  phase,            \* "loaded" | "attached" | "detached" (DllMain)
  lock,             \* owner of the GLOBAL_STATE mutex, or Free
  socket,           \* GlobalState.socket: 0 is None, else Installed
  open,             \* the socket handles that are open
  jvs_state,        \* GlobalState.jvs_state
  coin_counter,     \* GlobalState.coin_counter
  slider_active,    \* GlobalState.slider_active
  slider_callback,  \* GlobalState.slider_callback: 0 is None
  slider_pressure,  \* GlobalState.slider_pressure (0 is the all-zero array)
  pc,               \* each thread's position
  call,             \* each caller's entry-point invocation
  req,              \* each thread's send_message_with_recovery invocation
  loop,             \* each loop thread's iteration
  led_initialized,  \* GlobalState.led_initialized
  led_board_states, \* GlobalState.led_board_states
  led_task,         \* the message each worker thread's closure owns
  led_sent,         \* history: what the worker threads have sent and dropped
  coin_log,         \* history: the coin counts reported and returned
  codec             \* a message on its way through serialize, deserialize

vars == <<phase, lock, socket, open, jvs_state, coin_counter, slider_active,
          slider_callback, slider_pressure, pc, call, req, loop,
          led_initialized, led_board_states, led_task, led_sent, coin_log,
          codec>>

ledvars == <<led_initialized, led_board_states, led_task, led_sent>>

shared == <<socket, open, jvs_state, coin_counter, slider_active,
            slider_callback, slider_pressure>>

\* ---------------------------------------------------------------- messages
NoResp == [k |-> "None"]

JvsPollResponses ==
  {[k |-> "JvsPollResponse", opbtn |-> a, beams |-> b] : a, b \in 0..MaxBits}

CoinCounterReadResponses ==
  {[k |-> "CoinCounterReadResponse", count |-> c] : c \in 0..MaxCoin}

SliderStateReadResponses ==
  {[k |-> "SliderStateReadResponse", pressure |-> p] : p \in 0..MaxPressure}

\* What the peer may put on the wire in answer to a request: a response of
\* the request's kind, or a message of another kind (Pong stands for those).
Replies(message) ==
  {[k |-> "Pong"]}
    \cup (IF message = "JvsPoll" THEN JvsPollResponses ELSE {})
    \cup (IF message = "CoinCounterRead" THEN CoinCounterReadResponses ELSE {})
    \cup (IF message = "SliderStateRead" THEN SliderStateReadResponses ELSE {})

\* send_message: the kinds after whose send a reply is awaited.
ExpectsResponse(message) ==
  message \in {"JvsPoll", "CoinCounterRead", "SliderStateRead", "Ping"}

\* send_message(sock, message): every way one call can end.  send is the
\* outcome of send(), recv that of recv() and of deserialize, result the
\* Option returned (NoResp is None).
SendMessage(message) ==
  {[send |-> "err", recv |-> "none", result |-> NoResp]}
    \cup (IF ExpectsResponse(message)
          THEN {[send |-> "ok", recv |-> r, result |-> NoResp] :
                   r \in {"err", "undecodable", "hang"}}
                 \cup {[send |-> "ok", recv |-> "ok", result |-> m] :
                          m \in Replies(message)}
          ELSE {[send |-> "ok", recv |-> "none", result |-> NoResp]})

\* ------------------------------------------------------------ thread state
\* A byte buffer of LED colours: its length and the value every byte of it
\* has (Torn: the caller's bytes followed by whatever lay behind them in
\* memory).  NoBuf is Vec::new(), NullPtr a null rgb argument.
NoBuf == [len |-> 0, fill |-> 0]
Torn == 0 - 1
NullPtr == [len |-> 0 - 1, fill |-> 0]
Boards == 0..2

\* The LedUpdate a worker thread's closure owns.
NoTask == [board |-> 0, rgb |-> NoBuf]

\* op: the entry point running; locked: its first try_lock succeeded;
\* opbtn, beams, total: the out-parameters; cb: slider_start's argument;
\* noop: slider_start found the slider active; outcome: what became of the
\* request ("stored", "failed": no reply or one of another kind,
\* "contended": the reply was dropped because try_lock failed; for an LED
\* write "stored": the buffer was copied).
CallInit ==
  [op |-> "none", locked |-> FALSE, opbtn |-> 0, beams |-> 0, total |-> 0,
   cb |-> 0, noop |-> FALSE, outcome |-> "none"]

\* msg: the message; res: the Option returned; new_sock: the socket
\* recover_connection holds before installing it.  The other fields record
\* what the invocation has done: the number of send_message calls and of
\* recover_connection calls, each attempt's and the recovery's outcome,
\* whether the socket its recovery installed is still the installed one
\* (mine), whether the retry went out on that socket (on_installed), and
\* whether the first attempt returned after a successful send() without
\* calling recv() (no_wait).
ReqInit ==
  [msg |-> "none", res |-> NoResp, sends |-> 0, reconnects |-> 0,
   recovered |-> "none", first |-> "none", retry |-> "none",
   new_sock |-> 0, mine |-> FALSE, on_installed |-> FALSE,
   no_wait |-> FALSE]

\* cbn, cbarg: how often the iteration has invoked the callback, and with
\* what; doomed: chuni_io_slider_stop has run since the thread's last check;
\* late: how often the callback has been invoked since it did.
LoopInit == [cbn |-> 0, cbarg |-> 0, doomed |-> FALSE, late |-> 0]

\* The history of the coin counts: whether it is kept, the count the peer
\* reported last, whether the counts reported so far never decreased, and
\* the value each caller's last chuni_io_jvs_read_coin_counter returned.
CoinLogOff ==
  [on |-> FALSE, reported |-> 0, mono |-> TRUE, returned |-> [u \in Callers |-> 0]]

\* The history after send_message has returned result.
LogReply(h, result) ==
  IF h.on /\ result.k = "CoinCounterReadResponse"
  THEN [h EXCEPT !.mono = @ /\ result.count >= h.reported, !.reported = result.count]
  ELSE h

\* The history after caller u's entry point has filled its out-parameters c.
LogReturn(h, u, c) ==
  IF h.on /\ c.op = "coin" THEN [h EXCEPT !.returned[u] = c.total] ELSE h

\* The history of the LedUpdates: whether it is kept, the buffer of the last
\* LedUpdate send() has accepted for each board, and why a thread last ended
\* without its LedUpdate having been sent ("none": no thread has).
SentOff == [on |-> FALSE, last |-> [b \in Boards |-> NoBuf], dropped |-> "none"]

\* The history after send() has accepted the LedUpdate message.
LogSent(h, message) ==
  IF h.on THEN [h EXCEPT !.last[message.board] = message.rgb] ELSE h

\* The history after a thread has ended with its LedUpdate unsent.
LogDropped(h, why) == IF h.on THEN [h EXCEPT !.dropped = why] ELSE h

\* What deserialize returns: Ok(message) or Err(error).
Ok(m) == [ok |-> TRUE, msg |-> m, err |-> "none"]
Err(e) == [ok |-> FALSE, msg |-> NoResp, err |-> e]

\* The codec's position: with a message to serialize ("message"), with
\* bytes to deserialize (via: "serialized", the bytes of msg; "cut", those
\* bytes less some at the end; "raw", other bytes), or done ("decoded").
CodecIdle ==
  [pc |-> "idle", via |-> "none", msg |-> NoResp, bytes |-> <<>>, out |-> Err("none")]

\* Where send_message_with_recovery returns to.
ReqDone(u) == IF u \in Callers THEN "fin" ELSE "l_deliver"

Alive == {l \in Loops : pc[l] # "off"}

\* The state of a freshly loaded DLL, but for the history and the codec.
Loaded ==
  /\ phase = "loaded"
  /\ lock = Free
  /\ socket = 0
  /\ open = {}
  /\ jvs_state = [opbtn |-> 0, beams |-> 0]
  /\ coin_counter = 0
  /\ slider_active = FALSE
  /\ slider_callback = 0
  /\ slider_pressure = 0
  /\ pc = [u \in Threads |-> IF u \in Callers THEN "idle" ELSE "off"]
  /\ call = [u \in Callers |-> CallInit]
  /\ req = [u \in Units |-> ReqInit]
  /\ loop = [l \in Loops |-> LoopInit]
  /\ led_initialized = FALSE
  /\ led_board_states = [b \in Boards |-> NoBuf]
  /\ led_task = [w \in Workers |-> NoTask]

Init ==
  /\ Loaded
  /\ led_sent = SentOff
  /\ coin_log = CoinLogOff
  /\ codec = CodecIdle

\* DllMain, DLL_PROCESS_ATTACH: connect, install the socket, ping it.  The
\* loader runs it before any entry point; the ping's reply changes nothing.
Attach ==
  /\ phase = "loaded"
  /\ phase' = "attached"
  /\ \E connected \in BOOLEAN :
       IF connected
       THEN socket' = Installed /\ open' = {Installed}
       ELSE UNCHANGED <<socket, open>>
  /\ UNCHANGED <<lock, jvs_state, coin_counter, slider_active, slider_callback,
                 slider_pressure, pc, call, req, loop>>
  /\ UNCHANGED <<ledvars, coin_log, codec>>

\* ------------------------------------------- send_message_with_recovery
\* First GLOBAL_STATE.lock(): with a socket installed the exchange follows
\* under the lock; without one the lock is dropped and recovery starts.
ReqLock1(u) ==
  /\ pc[u] = "r_lock1"
  /\ lock = Free
  /\ IF socket # 0
     THEN lock' = u /\ pc' = [pc EXCEPT ![u] = "r_xchg1"]
     ELSE lock' = Free /\ pc' = [pc EXCEPT ![u] = "r_conn"]
  /\ UNCHANGED <<phase, shared, call, req, loop>>
  /\ UNCHANGED <<ledvars, coin_log, codec>>

\* Whether the first attempt's result is returned at once.
FirstAttemptReturns(result) == result # NoResp

\* send_message(sock, message) with the lock held; a recv() the peer never
\* answers leaves the thread blocked with the lock.
ReqExchange1(u) ==
  /\ pc[u] = "r_xchg1"
  /\ lock = u
  /\ \E o \in SendMessage(req[u].msg) :
       /\ req' = [req EXCEPT ![u].sends = @ + 1,
                             ![u].first = IF o.result # NoResp THEN "ok" ELSE "failed",
                             ![u].no_wait = (o.send = "ok" /\ o.recv = "none"),
                             ![u].res = o.result]
       /\ coin_log' = LogReply(coin_log, o.result)
       /\ IF o.recv = "hang"
          THEN pc' = [pc EXCEPT ![u] = "r_hung"] /\ UNCHANGED lock
          ELSE /\ lock' = Free
               /\ pc' = [pc EXCEPT ![u] = IF FirstAttemptReturns(o.result)
                                          THEN ReqDone(u) ELSE "r_conn"]
  /\ UNCHANGED <<phase, shared, call, loop>>
  /\ UNCHANGED <<ledvars, codec>>

\* recover_connection: init_socket_connection, without the lock.
ReqConnect(u) ==
  /\ pc[u] = "r_conn"
  /\ \E connected \in BOOLEAN :
       IF connected
       THEN /\ open' = open \cup {Pending(u)}
            /\ req' = [req EXCEPT ![u].reconnects = @ + 1, ![u].new_sock = Pending(u)]
            /\ pc' = [pc EXCEPT ![u] = "r_inst"]
       ELSE /\ req' = [req EXCEPT ![u].reconnects = @ + 1, ![u].recovered = "failed",
                                  ![u].res = NoResp]
            /\ pc' = [pc EXCEPT ![u] = ReqDone(u)]
            /\ UNCHANGED open
  /\ UNCHANGED <<phase, lock, socket, jvs_state, coin_counter, slider_active,
                 slider_callback, slider_pressure, call, loop>>
  /\ UNCHANGED <<ledvars, coin_log, codec>>

\* recover_connection: under the lock close the old socket, install the new.
ReqInstall(u) ==
  /\ pc[u] = "r_inst"
  /\ lock = Free
  /\ open' = ((open \ {socket}) \ {req[u].new_sock}) \cup {Installed}
  /\ socket' = Installed
  /\ req' = [v \in Units |->
              IF v = u
              THEN [req[v] EXCEPT !.recovered = "ok", !.new_sock = 0, !.mine = TRUE]
              ELSE [req[v] EXCEPT !.mine = FALSE]]
  /\ pc' = [pc EXCEPT ![u] = "r_lock2"]
  /\ UNCHANGED <<phase, lock, jvs_state, coin_counter, slider_active,
                 slider_callback, slider_pressure, call, loop>>
  /\ UNCHANGED <<ledvars, coin_log, codec>>

\* Second GLOBAL_STATE.lock(), after a successful recovery.
ReqLock2(u) ==
  /\ pc[u] = "r_lock2"
  /\ lock = Free
  /\ IF socket # 0
     THEN /\ lock' = u
          /\ pc' = [pc EXCEPT ![u] = "r_xchg2"]
          /\ req' = [req EXCEPT ![u].on_installed = req[u].mine, ![u].mine = FALSE]
     ELSE /\ lock' = Free
          /\ pc' = [pc EXCEPT ![u] = ReqDone(u)]
          /\ req' = [req EXCEPT ![u].res = NoResp, ![u].mine = FALSE]
  /\ UNCHANGED <<phase, shared, call, loop>>
  /\ UNCHANGED <<ledvars, coin_log, codec>>

\* A send_message_with_recovery that recovers again when the retry fails.
AfterRetryRecoversAgain(u, result) == IF result = NoResp THEN "r_conn" ELSE ReqDone(u)

\* Where the thread goes when the retried send_message has returned.
AfterRetry(u, result) == ReqDone(u)

\* The retried send_message(sock, message); its result is returned as is.
ReqExchange2(u) ==
  /\ pc[u] = "r_xchg2"
  /\ lock = u
  /\ \E o \in SendMessage(req[u].msg) :
       /\ req' = [req EXCEPT ![u].sends = @ + 1,
                             ![u].retry = IF o.result # NoResp THEN "ok" ELSE "failed",
                             ![u].res = o.result]
       /\ coin_log' = LogReply(coin_log, o.result)
       /\ IF o.recv = "hang"
          THEN pc' = [pc EXCEPT ![u] = "r_hung"] /\ UNCHANGED lock
          ELSE /\ lock' = Free
               /\ pc' = [pc EXCEPT ![u] = AfterRetry(u, o.result)]
  /\ UNCHANGED <<phase, shared, call, loop>>
  /\ UNCHANGED <<ledvars, codec>>

Request(u) ==
  \/ ReqLock1(u)
  \/ ReqExchange1(u)
  \/ ReqConnect(u)
  \/ ReqInstall(u)
  \/ ReqLock2(u)
  \/ ReqExchange2(u)

\* The variants of ChuniMessage.
MessageKinds ==
  {"JvsPoll", "JvsPollResponse", "CoinCounterRead", "CoinCounterReadResponse",
   "SliderInput", "SliderStateRead", "SliderStateReadResponse", "SliderLedUpdate",
   "LedUpdate", "Ping", "Pong", "JvsFullStateRead", "JvsFullStateReadResponse"}

\* send_message_with_recovery(message) is called for a message of any kind.
SendWithRecovery(u, message) ==
  /\ phase = "attached"
  /\ pc[u] = "idle"
  /\ pc' = [pc EXCEPT ![u] = "r_lock1"]
  /\ call' = [call EXCEPT ![u] = [CallInit EXCEPT !.op = "request"]]
  /\ req' = [req EXCEPT ![u] = [ReqInit EXCEPT !.msg = message]]
  /\ UNCHANGED <<phase, lock, shared, loop, ledvars, coin_log, codec>>

\* send_message_with_recovery has returned to that caller.
RequestReturns(u) ==
  /\ pc[u] = "fin"
  /\ call[u].op = "request"
  /\ pc' = [pc EXCEPT ![u] = "ret"]
  /\ call' = [call EXCEPT ![u].outcome = IF req[u].res = NoResp THEN "failed"
                                                                ELSE "answered"]
  /\ req' = [req EXCEPT ![u] = ReqInit]
  /\ UNCHANGED <<phase, lock, shared, loop, ledvars, coin_log, codec>>

\* --------------------------------------------------------- JVS entry points
\* A chuni_io_jvs_poll that returns the cached state when try_lock fails.
PollContendedReturnsCached(cached) == cached

\* What chuni_io_jvs_poll stores in its out-parameters when try_lock fails.
PollContended(cached) == [opbtn |-> 0, beams |-> 0]

\* chuni_io_jvs_poll up to the request: try_lock, copy the cached state,
\* and with a socket installed drop the lock and send JvsPoll.
Poll(u) ==
  /\ phase = "attached"
  /\ pc[u] = "idle"
  /\ IF lock = Free
     THEN /\ call' = [call EXCEPT ![u] = [CallInit EXCEPT
                        !.op = "poll", !.locked = TRUE,
                        !.opbtn = jvs_state.opbtn, !.beams = jvs_state.beams]]
          /\ IF socket # 0
             THEN /\ pc' = [pc EXCEPT ![u] = "r_lock1"]
                  /\ req' = [req EXCEPT ![u] = [ReqInit EXCEPT !.msg = "JvsPoll"]]
             ELSE /\ pc' = [pc EXCEPT ![u] = "ret"]
                  /\ UNCHANGED req
     ELSE /\ call' = [call EXCEPT ![u] = [CallInit EXCEPT
                        !.op = "poll",
                        !.opbtn = PollContended(jvs_state).opbtn,
                        !.beams = PollContended(jvs_state).beams]]
          /\ pc' = [pc EXCEPT ![u] = "ret"]
          /\ UNCHANGED req
  /\ UNCHANGED <<phase, lock, shared, loop>>
  /\ UNCHANGED <<ledvars, coin_log, codec>>

\* What chuni_io_jvs_read_coin_counter stores in *total when try_lock fails.
CoinContended(cached) == 0

\* chuni_io_jvs_read_coin_counter up to the request.
ReadCoinCounter(u) ==
  /\ phase = "attached"
  /\ pc[u] = "idle"
  /\ IF lock = Free
     THEN /\ call' = [call EXCEPT ![u] = [CallInit EXCEPT
                        !.op = "coin", !.locked = TRUE,
                        !.total = coin_counter]]
          /\ IF socket # 0
             THEN /\ pc' = [pc EXCEPT ![u] = "r_lock1"]
                  /\ req' = [req EXCEPT ![u] = [ReqInit EXCEPT !.msg = "CoinCounterRead"]]
             ELSE /\ pc' = [pc EXCEPT ![u] = "ret"]
                  /\ UNCHANGED req
     ELSE /\ call' = [call EXCEPT ![u] = [CallInit EXCEPT
                        !.op = "coin", !.total = CoinContended(coin_counter)]]
          /\ pc' = [pc EXCEPT ![u] = "ret"]
          /\ UNCHANGED req
  /\ coin_log' = IF pc'[u] = "ret" THEN LogReturn(coin_log, u, call'[u]) ELSE coin_log
  /\ UNCHANGED <<phase, lock, shared, loop>>
  /\ UNCHANGED <<ledvars, codec>>

\* Whether the reply is the one chuni_io_jvs_poll stores.
IsPollResponse(m) == m.k = "JvsPollResponse"

\* Whether the reply is the one chuni_io_jvs_read_coin_counter stores.
IsCoinResponse(m) == m.k = "CoinCounterReadResponse"

\* The second try_lock of the JVS entry points, taken to store a reply.
StoreLockTaken == lock = Free

\* A chuni_io_jvs_poll that takes opbtn from the reply and leaves beams.
PollResultKeepsBeams(c, res, locked) ==
  IF ~IsPollResponse(res) THEN [c EXCEPT !.outcome = "failed"]
  ELSE IF ~locked THEN [c EXCEPT !.outcome = "contended"]
  ELSE [c EXCEPT !.opbtn = res.opbtn, !.outcome = "stored"]

\* A chuni_io_jvs_poll that returns the empty state when the request fails.
PollResultZeroOnFailure(c, res, locked) ==
  IF ~IsPollResponse(res) THEN [c EXCEPT !.opbtn = 0, !.beams = 0, !.outcome = "failed"]
  ELSE IF ~locked THEN [c EXCEPT !.outcome = "contended"]
  ELSE [c EXCEPT !.opbtn = res.opbtn, !.beams = res.beams, !.outcome = "stored"]

\* chuni_io_jvs_poll after the request: the out-parameters (and outcome).
PollResult(c, res, locked) ==
  IF ~IsPollResponse(res) THEN [c EXCEPT !.outcome = "failed"]
  ELSE IF ~locked THEN [c EXCEPT !.outcome = "contended"]
  ELSE [c EXCEPT !.opbtn = res.opbtn, !.beams = res.beams, !.outcome = "stored"]

\* chuni_io_jvs_read_coin_counter after the request: *total (and outcome).
CoinResult(c, res, locked) ==
  IF ~IsCoinResponse(res) THEN [c EXCEPT !.outcome = "failed"]
  ELSE IF ~locked THEN [c EXCEPT !.outcome = "contended"]
  ELSE [c EXCEPT !.total = res.count, !.outcome = "stored"]

\* chuni_io_jvs_poll / chuni_io_jvs_read_coin_counter after the request: a
\* reply of the expected kind is stored and returned if try_lock succeeds.
Finish(u) ==
  /\ pc[u] = "fin"
  /\ call[u].op \in {"poll", "coin"}
  /\ pc' = [pc EXCEPT ![u] = "ret"]
  /\ IF call[u].op = "poll"
     THEN /\ call' = [call EXCEPT ![u] = PollResult(call[u], req[u].res, StoreLockTaken)]
          /\ jvs_state' = IF IsPollResponse(req[u].res) /\ StoreLockTaken
                          THEN [opbtn |-> req[u].res.opbtn, beams |-> req[u].res.beams]
                          ELSE jvs_state
          /\ UNCHANGED coin_counter
     ELSE /\ call' = [call EXCEPT ![u] = CoinResult(call[u], req[u].res, StoreLockTaken)]
          /\ coin_counter' = IF IsCoinResponse(req[u].res) /\ StoreLockTaken
                             THEN req[u].res.count
                             ELSE coin_counter
          /\ UNCHANGED jvs_state
  /\ req' = [req EXCEPT ![u] = ReqInit]
  /\ coin_log' = LogReturn(coin_log, u, call'[u])
  /\ UNCHANGED <<phase, lock, socket, open, slider_active, slider_callback,
                 slider_pressure, loop>>
  /\ UNCHANGED <<ledvars, codec>>

\* The entry point returns to the game.
Return(u) ==
  /\ pc[u] = "ret"
  /\ pc' = [pc EXCEPT ![u] = "idle"]
  /\ call' = [call EXCEPT ![u] = CallInit]
  /\ UNCHANGED <<phase, lock, shared, req, loop>>
  /\ UNCHANGED <<ledvars, coin_log, codec>>

\* chuni_io_jvs_init is called; it blocks on GLOBAL_STATE.lock().
JvsInit(u) ==
  /\ phase = "attached"
  /\ pc[u] = "idle"
  /\ pc' = [pc EXCEPT ![u] = "j_lock"]
  /\ call' = [call EXCEPT ![u] = [CallInit EXCEPT !.op = "jvs_init"]]
  /\ UNCHANGED <<phase, lock, shared, req, loop>>
  /\ UNCHANGED <<ledvars, coin_log, codec>>

\* A chuni_io_jvs_init that drops the guard before it probes.
ProbeUnlocked(u) == Free

\* The owner of the lock while chuni_io_jvs_init probes the socket.
ProbeHolds(u) == u

\* chuni_io_jvs_init under the lock: E_FAIL without a socket; with one the
\* probe follows, the guard being alive until the function returns.
JvsInitLocked(u) ==
  /\ pc[u] = "j_lock"
  /\ lock = Free
  /\ IF socket # 0
     THEN /\ lock' = ProbeHolds(u)
          /\ pc' = [pc EXCEPT ![u] = "j_probe"]
          /\ call' = [call EXCEPT ![u].locked = TRUE]
     ELSE /\ lock' = Free
          /\ pc' = [pc EXCEPT ![u] = "ret"]
          /\ call' = [call EXCEPT ![u].locked = TRUE, ![u].outcome = "E_FAIL"]
  /\ UNCHANGED <<phase, shared, req, loop>>
  /\ UNCHANGED <<ledvars, coin_log, codec>>

\* chuni_io_jvs_init's probe: send_message(sock, JvsPoll), whose result is
\* only logged; then S_OK.  A recv() the peer never answers leaves the
\* thread blocked with the lock.
JvsInitProbe(u) ==
  /\ pc[u] = "j_probe"
  /\ \E o \in SendMessage("JvsPoll") :
       IF o.recv = "hang"
       THEN pc' = [pc EXCEPT ![u] = "r_hung"] /\ UNCHANGED <<lock, call>>
       ELSE /\ lock' = Free
            /\ pc' = [pc EXCEPT ![u] = "ret"]
            /\ call' = [call EXCEPT ![u].outcome = "S_OK"]
  /\ UNCHANGED <<phase, shared, req, loop>>
  /\ UNCHANGED <<ledvars, coin_log, codec>>

\* ------------------------------------------------------ DllMain, detach
\* DllMain, DLL_PROCESS_DETACH is entered; it blocks on GLOBAL_STATE.lock().
\* No entry point is called from then on; calls in flight and the slider
\* threads, which nothing joins, run on.
Detach(u) ==
  /\ phase = "attached"
  /\ pc[u] = "idle"
  /\ phase' = "detached"
  /\ pc' = [pc EXCEPT ![u] = "d_lock"]
  /\ call' = [call EXCEPT ![u] = [CallInit EXCEPT !.op = "detach"]]
  /\ UNCHANGED <<lock, shared, req, loop>>
  /\ UNCHANGED <<ledvars, coin_log, codec>>

\* DLL_PROCESS_DETACH under the lock: take the socket and close it.
DetachLocked(u) ==
  /\ pc[u] = "d_lock"
  /\ lock = Free
  /\ socket' = 0
  /\ open' = open \ {socket}
  /\ req' = [v \in Units |-> [req[v] EXCEPT !.mine = FALSE]]
  /\ pc' = [pc EXCEPT ![u] = "ret"]
  /\ UNCHANGED <<phase, lock, jvs_state, coin_counter, slider_active,
                 slider_callback, slider_pressure, call, loop>>
  /\ UNCHANGED <<ledvars, coin_log, codec>>

\* ------------------------------------------------------------------ slider
\* The thread thread::spawn starts: a slot no slider thread occupies.
FreshLoop == CHOOSE l \in Loops : pc[l] = "off" /\ \A m \in Loops : pc[m] = "off" => l <= m

\* chuni_io_slider_start is called with a non-null callback; it blocks on
\* GLOBAL_STATE.lock().  (Calls are held back while every slot is taken by
\* a thread running or about to be spawned.)
SliderStart(u, callback) ==
  /\ phase = "attached"
  /\ pc[u] = "idle"
  /\ Cardinality(Alive) + Cardinality({c \in Callers : pc[c] = "s_lock"})
        < Cardinality(Loops)
  /\ pc' = [pc EXCEPT ![u] = "s_lock"]
  /\ call' = [call EXCEPT ![u] = [CallInit EXCEPT !.op = "start", !.cb = callback]]
  /\ UNCHANGED <<phase, lock, shared, req, loop>>
  /\ UNCHANGED <<ledvars, coin_log, codec>>

\* A chuni_io_slider_start without the early return.
AlreadyRunningIgnored == FALSE

\* chuni_io_slider_start: the check that makes a second start return early.
AlreadyRunning == slider_active

\* chuni_io_slider_start under the lock: return if the slider is active,
\* else store the callback, set the flag and spawn the polling thread.
StartLocked(u) ==
  /\ pc[u] = "s_lock"
  /\ lock = Free
  /\ IF AlreadyRunning
     THEN /\ pc' = [pc EXCEPT ![u] = "ret"]
          /\ call' = [call EXCEPT ![u].noop = TRUE]
          /\ UNCHANGED <<slider_callback, slider_active, req, loop>>
     ELSE /\ slider_callback' = call[u].cb
          /\ slider_active' = TRUE
          /\ pc' = [pc EXCEPT ![u] = "ret", ![FreshLoop] = "l_check"]
          /\ req' = [req EXCEPT ![FreshLoop] = ReqInit]
          /\ loop' = [loop EXCEPT ![FreshLoop] = LoopInit]
          /\ UNCHANGED call
  /\ UNCHANGED <<phase, lock, socket, open, jvs_state, coin_counter, slider_pressure>>
  /\ UNCHANGED <<ledvars, coin_log, codec>>

\* chuni_io_slider_stop is called; it blocks on GLOBAL_STATE.lock().
SliderStop(u) ==
  /\ phase = "attached"
  /\ pc[u] = "idle"
  /\ pc' = [pc EXCEPT ![u] = "p_lock"]
  /\ call' = [call EXCEPT ![u] = [CallInit EXCEPT !.op = "stop"]]
  /\ UNCHANGED <<phase, lock, shared, req, loop>>
  /\ UNCHANGED <<ledvars, coin_log, codec>>

\* Where chuni_io_slider_stop returns to: the game, or the callback that
\* called it.
StopDone(u) == IF u \in Callers THEN "ret" ELSE "l_back"

\* chuni_io_slider_stop under the lock: clear the flag.
StopLocked(u) ==
  /\ pc[u] = "p_lock"
  /\ lock = Free
  /\ slider_active' = FALSE
  /\ loop' = [l \in Loops |-> IF l \in Alive THEN [loop[l] EXCEPT !.doomed = TRUE]
                                              ELSE loop[l]]
  /\ pc' = [pc EXCEPT ![u] = StopDone(u)]
  /\ UNCHANGED <<phase, lock, socket, open, jvs_state, coin_counter,
                 slider_callback, slider_pressure, call, req>>
  /\ UNCHANGED <<ledvars, coin_log, codec>>

\* The polling thread's while condition: lock, read slider_active, unlock.
LoopCheck(l) ==
  /\ pc[l] = "l_check"
  /\ lock = Free
  /\ IF slider_active
     THEN /\ pc' = [pc EXCEPT ![l] = "l_iter"]
          /\ loop' = [loop EXCEPT ![l] = LoopInit]
     ELSE /\ pc' = [pc EXCEPT ![l] = "off"]
          /\ loop' = [loop EXCEPT ![l] = LoopInit]
  /\ UNCHANGED <<phase, lock, shared, call, req>>
  /\ UNCHANGED <<ledvars, coin_log, codec>>

\* A loop body that invokes the callback twice.
InvokeTwice(it, pressure) ==
  IF slider_callback # 0
  THEN [it EXCEPT !.cbn = @ + 2, !.cbarg = pressure,
                  !.late = IF it.doomed THEN @ + 2 ELSE @]
  ELSE it

\* The callback is invoked, if one is stored, with state.slider_pressure.
Invoke(it, pressure) ==
  IF slider_callback # 0
  THEN [it EXCEPT !.cbn = @ + 1, !.cbarg = pressure,
                  !.late = IF it.doomed THEN @ + 1 ELSE @]
  ELSE it

\* The loop body's lock: with a socket the lock is dropped and
\* SliderStateRead is sent; without one the callback gets the cached state.
LoopIter(l) ==
  /\ pc[l] = "l_iter"
  /\ lock = Free
  /\ IF socket # 0
     THEN /\ pc' = [pc EXCEPT ![l] = "r_lock1"]
          /\ req' = [req EXCEPT ![l] = [ReqInit EXCEPT !.msg = "SliderStateRead"]]
          /\ UNCHANGED loop
     ELSE /\ pc' = [pc EXCEPT ![l] = "l_sleep"]
          /\ loop' = [loop EXCEPT ![l] = Invoke(loop[l], slider_pressure)]
          /\ UNCHANGED req
  /\ UNCHANGED <<phase, lock, shared, call>>
  /\ UNCHANGED <<ledvars, coin_log, codec>>

\* A loop body that does not store the response.
StorePressureSkipped(res, cached) == cached

\* What state.slider_pressure holds once the loop has handled the result.
StorePressure(res, cached) ==
  IF res.k = "SliderStateReadResponse" THEN res.pressure ELSE cached

\* The loop body after the request: under the lock store a
\* SliderStateReadResponse's pressure, then invoke the callback.
LoopDeliver(l) ==
  /\ pc[l] = "l_deliver"
  /\ lock = Free
  /\ slider_pressure' = StorePressure(req[l].res, slider_pressure)
  /\ loop' = [loop EXCEPT ![l] = Invoke(loop[l], slider_pressure')]
  /\ pc' = [pc EXCEPT ![l] = "l_sleep"]
  /\ req' = [req EXCEPT ![l] = ReqInit]
  /\ UNCHANGED <<phase, lock, socket, open, jvs_state, coin_counter,
                 slider_active, slider_callback, call>>
  /\ UNCHANGED <<ledvars, coin_log, codec>>

\* thread::sleep(1 ms), then back to the while condition.
LoopSleep(l) ==
  /\ pc[l] = "l_sleep"
  /\ pc' = [pc EXCEPT ![l] = "l_check"]
  /\ UNCHANGED <<phase, lock, shared, call, req, loop>>
  /\ UNCHANGED <<ledvars, coin_log, codec>>

SliderLoop(l) ==
  \/ LoopCheck(l)
  \/ LoopIter(l)
  \/ LoopDeliver(l)
  \/ LoopSleep(l)

\* The loop body again, with the callback's run a step of its own: the
\* callback is the game's code, and may call an entry point.
\* The loop body's lock: with a socket the lock is dropped and
\* SliderStateRead is sent; without one the guard stays alive for the call
\* of the callback.
LoopIterHeld(l) ==
  /\ pc[l] = "l_iter"
  /\ lock = Free
  /\ IF socket # 0
     THEN /\ pc' = [pc EXCEPT ![l] = "r_lock1"]
          /\ req' = [req EXCEPT ![l] = [ReqInit EXCEPT !.msg = "SliderStateRead"]]
          /\ UNCHANGED lock
     ELSE /\ pc' = [pc EXCEPT ![l] = "l_call"]
          /\ lock' = l
          /\ UNCHANGED req
  /\ UNCHANGED <<phase, shared, call, loop>>
  /\ UNCHANGED <<ledvars, coin_log, codec>>

\* The loop body after the request: lock, store a SliderStateReadResponse's
\* pressure; the guard stays alive for the call of the callback.
LoopDeliverHeld(l) ==
  /\ pc[l] = "l_deliver"
  /\ lock = Free
  /\ lock' = l
  /\ slider_pressure' = StorePressure(req[l].res, slider_pressure)
  /\ pc' = [pc EXCEPT ![l] = "l_call"]
  /\ req' = [req EXCEPT ![l] = ReqInit]
  /\ UNCHANGED <<phase, socket, open, jvs_state, coin_counter, slider_active,
                 slider_callback, call, loop>>
  /\ UNCHANGED <<ledvars, coin_log, codec>>

\* callback(state.slider_pressure.as_ptr()), if one is stored, runs and
\* returns; the guard is dropped at the end of the block.
CallbackReturns(l) ==
  /\ pc[l] \in {"l_call", "l_back"}
  /\ loop' = [loop EXCEPT ![l] = IF pc[l] = "l_call"
                                  THEN Invoke(loop[l], slider_pressure)
                                  ELSE loop[l]]
  /\ lock' = Free
  /\ pc' = [pc EXCEPT ![l] = "l_sleep"]
  /\ UNCHANGED <<phase, shared, call, req>>
  /\ UNCHANGED <<ledvars, coin_log, codec>>

\* The callback runs and calls chuni_io_slider_stop, which blocks on
\* GLOBAL_STATE.lock() on the polling thread.  (Mutex::lock on a thread
\* that holds the mutex does not return.)
CallbackStops(l) ==
  /\ pc[l] = "l_call"
  /\ slider_callback # 0
  /\ loop' = [loop EXCEPT ![l] = Invoke(loop[l], slider_pressure)]
  /\ pc' = [pc EXCEPT ![l] = "p_lock"]
  /\ UNCHANGED <<phase, lock, shared, call, req>>
  /\ UNCHANGED <<ledvars, coin_log, codec>>

\* --------------------------------------------------------------------- LED
\* The sizes chuni_io_led_init and chuni_io_slider_init give the buffers.
BoardLen(b) == CASE b = 0 -> 159 [] b = 1 -> 189 [] OTHER -> 93

\* chuni_io_led_set_colors: rgb_len, the number of bytes read for a board.
RgbLen(board) == CASE board = 0 -> 159 [] board = 1 -> 189 [] OTHER -> 93

\* led_board_states as both initializations leave it.
ZeroedBoards == [b \in Boards |-> [len |-> BoardLen(b), fill |-> 0]]

\* chuni_io_led_init: try_lock; unless already initialized size the three
\* buffers and set the flag.  S_OK is returned whatever happened.
LedInit(u) ==
  /\ phase = "attached"
  /\ pc[u] = "idle"
  /\ pc' = [pc EXCEPT ![u] = "ret"]
  /\ call' = [call EXCEPT ![u] = [CallInit EXCEPT !.op = "led_init",
                                                  !.locked = (lock = Free),
                                                  !.outcome = "S_OK"]]
  /\ IF lock = Free /\ ~led_initialized
     THEN led_board_states' = ZeroedBoards /\ led_initialized' = TRUE
     ELSE UNCHANGED <<led_board_states, led_initialized>>
  /\ UNCHANGED <<phase, lock, shared, req, loop, led_task, led_sent, coin_log, codec>>

\* chuni_io_slider_init is called; it blocks on GLOBAL_STATE.lock().
SliderInit(u) ==
  /\ phase = "attached"
  /\ pc[u] = "idle"
  /\ pc' = [pc EXCEPT ![u] = "i_lock"]
  /\ call' = [call EXCEPT ![u] = [CallInit EXCEPT !.op = "slider_init"]]
  /\ UNCHANGED <<phase, lock, shared, req, loop, ledvars, coin_log, codec>>

\* chuni_io_slider_init under the lock: initialize the LED buffers unless
\* that has been done.
SliderInitLocked(u) ==
  /\ pc[u] = "i_lock"
  /\ lock = Free
  /\ pc' = [pc EXCEPT ![u] = "ret"]
  /\ call' = [call EXCEPT ![u].locked = TRUE]
  /\ IF ~led_initialized
     THEN led_board_states' = ZeroedBoards /\ led_initialized' = TRUE
     ELSE UNCHANGED <<led_board_states, led_initialized>>
  /\ UNCHANGED <<phase, lock, shared, req, loop, led_task, led_sent, coin_log, codec>>

\* A copy that takes as many bytes as the caller's buffer has.
FromRawPartsWhole(buf, n) == {buf}

\* std::slice::from_raw_parts(rgb, n).to_vec(): n bytes starting at rgb.
\* When the caller's buffer is shorter the read runs past its end and the
\* copy is the caller's bytes followed by what lay behind them.
FromRawParts(buf, n) ==
  IF buf.len >= n
  THEN {[len |-> n, fill |-> buf.fill]}
  ELSE {[len |-> n, fill |-> f] : f \in {buf.fill, Torn}}

\* An LedUpdate that always names board 0.
UpdateForBoardZero(board, rgb_data) == [board |-> 0, rgb |-> rgb_data]

\* ChuniMessage::LedUpdate { board, rgb_data }.
UpdateFor(board, rgb_data) == [board |-> board, rgb |-> rgb_data]

\* The board arguments the game passes, and the buffers rgb points to: of
\* the board's size or of ShortLen bytes, or no buffer at all.
BoardArgs == 0..MaxBoard
RgbArgs(board) ==
  {NullPtr} \cup {[len |-> n, fill |-> c] : n \in {RgbLen(board), ShortLen},
                                          c \in 0..MaxColor}

\* The thread thread::spawn starts: a slot no worker thread occupies.
FreshWorker == CHOOSE w \in Workers : pc[w] = "off" /\ \A v \in Workers : pc[v] = "off" => w <= v

\* Whether chuni_io_led_set_colors gets as far as copying the buffer.
Copies(board, rgb) == rgb # NullPtr /\ board <= 2 /\ lock = Free /\ led_initialized

\* chuni_io_led_set_colors(board, rgb): return on a null rgb, a board above
\* 2, a failed try_lock or an uninitialized LED subsystem; else copy
\* rgb_len bytes into the board's buffer and, with a socket installed, drop
\* the lock and spawn a thread that owns the LedUpdate.  (A call that would
\* spawn is held back while every worker slot is taken.)
LedSetColors(u, board, rgb) ==
  /\ phase = "attached"
  /\ pc[u] = "idle"
  /\ IF Copies(board, rgb)
     THEN \E rgb_data \in FromRawParts(rgb, RgbLen(board)) :
            /\ call' = [call EXCEPT ![u] = [CallInit EXCEPT
                          !.op = "led_set_colors", !.locked = TRUE,
                          !.outcome = "stored"]]
            /\ led_board_states' = [led_board_states EXCEPT ![board] = rgb_data]
            /\ IF socket # 0
               THEN /\ \E w \in Workers : pc[w] = "off"
                    /\ pc' = [pc EXCEPT ![u] = "ret", ![FreshWorker] = "w_lock"]
                    /\ led_task' = [led_task EXCEPT
                                      ![FreshWorker] = UpdateFor(board, rgb_data)]
               ELSE /\ pc' = [pc EXCEPT ![u] = "ret"]
                    /\ UNCHANGED led_task
     ELSE /\ call' = [call EXCEPT ![u] = [CallInit EXCEPT !.op = "led_set_colors"]]
          /\ pc' = [pc EXCEPT ![u] = "ret"]
          /\ UNCHANGED <<led_board_states, led_task>>
  /\ UNCHANGED <<phase, lock, shared, req, loop, led_initialized, led_sent, coin_log,
                 codec>>

\* chuni_io_slider_set_leds(rgb): return on a null rgb, else forward to
\* chuni_io_led_set_colors(2, rgb).
SliderSetLeds(u, rgb) == LedSetColors(u, 2, rgb)

\* send_message_fire_and_forget on the spawned thread: GLOBAL_STATE.lock();
\* without a socket the message is dropped and the thread ends.
WorkerLock(w) ==
  /\ pc[w] = "w_lock"
  /\ lock = Free
  /\ IF socket # 0
     THEN /\ lock' = w
          /\ pc' = [pc EXCEPT ![w] = "w_send"]
          /\ UNCHANGED <<led_task, led_sent>>
     ELSE /\ lock' = Free
          /\ pc' = [pc EXCEPT ![w] = "off"]
          /\ led_task' = [led_task EXCEPT ![w] = NoTask]
          /\ led_sent' = LogDropped(led_sent, "no socket")
  /\ UNCHANGED <<phase, shared, call, req, loop, led_initialized, led_board_states,
                 coin_log, codec>>

\* A send_message_fire_and_forget that tries again when send() fails.
NotifyResends(sent) == IF sent THEN "off" ELSE "w_lock"

\* Where the thread goes when send() has returned (sent: without error).
AfterNotify(sent) == "off"

\* send_message_fire_and_forget: serialize and send() under the lock; the
\* result of send() is ignored, the lock dropped and the thread ends.
WorkerSend(w) ==
  /\ pc[w] = "w_send"
  /\ lock = w
  /\ lock' = Free
  /\ \E sent \in BOOLEAN :
       /\ pc' = [pc EXCEPT ![w] = AfterNotify(sent)]
       /\ led_task' = [led_task EXCEPT ![w] = IF pc'[w] = "off" THEN NoTask ELSE @]
       /\ led_sent' = IF sent THEN LogSent(led_sent, led_task[w])
                              ELSE LogDropped(led_sent, "send failed")
  /\ UNCHANGED <<phase, shared, call, req, loop, led_initialized, led_board_states,
                 coin_log, codec>>

\* ------------------------------------------------------------------- codec
\* The largest u8 and u16, and the length of a pressure array.
MaxByte == 255
MaxWord == 65535
PressureLen == 32

\* Message type IDs.
JVS_POLL == 1
JVS_POLL_RESPONSE == 2
COIN_COUNTER_READ == 3
COIN_COUNTER_READ_RESPONSE == 4
SLIDER_INPUT == 5
SLIDER_LED_UPDATE == 6
LED_UPDATE == 7
PING == 8
PONG == 9
SLIDER_STATE_READ == 10
SLIDER_STATE_READ_RESPONSE == 11
JVS_FULL_STATE_READ == 12
JVS_FULL_STATE_READ_RESPONSE == 13

\* n as u8.
AsU8(n) == n % (MaxByte + 1)

\* count.to_le_bytes() and u16::from_le_bytes.
ToLeBytes(count) == <<count % (MaxByte + 1), count \div (MaxByte + 1)>>
FromLeBytes(b) == b[1] + (MaxByte + 1) * b[2]

\* ChuniMessage::serialize.
serialize(m) ==
  CASE m.k = "JvsPoll" -> <<JVS_POLL>>
    [] m.k = "JvsPollResponse" -> <<JVS_POLL_RESPONSE, m.opbtn, m.beams>>
    [] m.k = "CoinCounterRead" -> <<COIN_COUNTER_READ>>
    [] m.k = "CoinCounterReadResponse" ->
         <<COIN_COUNTER_READ_RESPONSE>> \o ToLeBytes(m.count)
    [] m.k = "SliderInput" -> <<SLIDER_INPUT>> \o m.pressure
    [] m.k = "SliderStateRead" -> <<SLIDER_STATE_READ>>
    [] m.k = "SliderStateReadResponse" -> <<SLIDER_STATE_READ_RESPONSE>> \o m.pressure
    [] m.k = "SliderLedUpdate" ->
         <<SLIDER_LED_UPDATE, AsU8(Len(m.rgb_data))>> \o m.rgb_data
    [] m.k = "LedUpdate" ->
         <<LED_UPDATE, m.board, AsU8(Len(m.rgb_data))>> \o m.rgb_data
    [] m.k = "Ping" -> <<PING>>
    [] m.k = "Pong" -> <<PONG>>
    [] m.k = "JvsFullStateRead" -> <<JVS_FULL_STATE_READ>>
    [] m.k = "JvsFullStateReadResponse" ->
         <<JVS_FULL_STATE_READ_RESPONSE, m.opbtn, m.beams>> \o m.pressure
           \o ToLeBytes(m.coin_counter)

\* A read that succeeds however few bytes are left.
ReadLenient(data, pos, n) == TRUE

\* cursor.read_exact of n bytes at position pos succeeds.
ReadExact(data, pos, n) == pos + n - 1 <= Len(data)

\* The zeroed buffer of n bytes after a read at position pos.
Filled(data, pos, n) ==
  [i \in 1..n |-> IF pos + i - 1 <= Len(data) THEN data[pos + i - 1] ELSE 0]

\* The error a failed read_exact returns, propagated by `?`.
Eof == Err("UnexpectedEof")

\* ChuniMessage::deserialize.
deserialize(data) ==
  IF data = <<>> THEN Err("Empty data")
  ELSE CASE data[1] = JVS_POLL -> Ok([k |-> "JvsPoll"])
    [] data[1] = JVS_POLL_RESPONSE ->
         IF ReadExact(data, 2, 1) /\ ReadExact(data, 3, 1)
         THEN Ok([k |-> "JvsPollResponse", opbtn |-> Filled(data, 2, 1)[1],
                  beams |-> Filled(data, 3, 1)[1]])
         ELSE Eof
    [] data[1] = COIN_COUNTER_READ -> Ok([k |-> "CoinCounterRead"])
    [] data[1] = COIN_COUNTER_READ_RESPONSE ->
         IF ReadExact(data, 2, 2)
         THEN Ok([k |-> "CoinCounterReadResponse",
                  count |-> FromLeBytes(Filled(data, 2, 2))])
         ELSE Eof
    [] data[1] = SLIDER_INPUT ->
         IF ReadExact(data, 2, PressureLen)
         THEN Ok([k |-> "SliderInput", pressure |-> Filled(data, 2, PressureLen)])
         ELSE Eof
    [] data[1] = SLIDER_STATE_READ -> Ok([k |-> "SliderStateRead"])
    [] data[1] = SLIDER_STATE_READ_RESPONSE ->
         IF ReadExact(data, 2, PressureLen)
         THEN Ok([k |-> "SliderStateReadResponse",
                  pressure |-> Filled(data, 2, PressureLen)])
         ELSE Eof
    [] data[1] = SLIDER_LED_UPDATE ->
         IF ReadExact(data, 2, 1) /\ ReadExact(data, 3, Filled(data, 2, 1)[1])
         THEN Ok([k |-> "SliderLedUpdate",
                  rgb_data |-> Filled(data, 3, Filled(data, 2, 1)[1])])
         ELSE Eof
    [] data[1] = LED_UPDATE ->
         IF /\ ReadExact(data, 2, 1)
            /\ ReadExact(data, 3, 1)
            /\ ReadExact(data, 4, Filled(data, 3, 1)[1])
         THEN Ok([k |-> "LedUpdate", board |-> Filled(data, 2, 1)[1],
                  rgb_data |-> Filled(data, 4, Filled(data, 3, 1)[1])])
         ELSE Eof
    [] data[1] = PING -> Ok([k |-> "Ping"])
    [] data[1] = PONG -> Ok([k |-> "Pong"])
    [] data[1] = JVS_FULL_STATE_READ -> Ok([k |-> "JvsFullStateRead"])
    [] data[1] = JVS_FULL_STATE_READ_RESPONSE ->
         IF /\ ReadExact(data, 2, 1)
            /\ ReadExact(data, 3, 1)
            /\ ReadExact(data, 4, PressureLen)
            /\ ReadExact(data, 4 + PressureLen, 2)
         THEN Ok([k |-> "JvsFullStateReadResponse",
                  opbtn |-> Filled(data, 2, 1)[1], beams |-> Filled(data, 3, 1)[1],
                  pressure |-> Filled(data, 4, PressureLen),
                  coin_counter |-> FromLeBytes(Filled(data, 4 + PressureLen, 2))])
         ELSE Eof
    [] OTHER -> Err("Unknown message type")

\* The messages and the bytes the codec is applied to: every variant, with
\* fields at both ends of their ranges and RGB buffers of up to MaxRgbLen
\* bytes; and byte strings that are empty or start with no message type ID.
ByteSamples == {0, 1, MaxByte}
WordSamples == {0, 1, MaxByte + 1, MaxWord}
Fill(n, v) == [i \in 1..n |-> v]
Ramp(n) == [i \in 1..n |-> i % (MaxByte + 1)]
PressureArrays == {Fill(PressureLen, v) : v \in ByteSamples} \cup {Ramp(PressureLen)}
RgbLens == {0, 1, 3, MaxByte, MaxByte + 1, MaxRgbLen}
RgbBuffers == {Fill(n, MaxByte) : n \in RgbLens} \cup {Ramp(n) : n \in RgbLens}

CodecMessages ==
  {[k |-> kind] : kind \in {"JvsPoll", "CoinCounterRead", "SliderStateRead", "Ping",
                            "Pong", "JvsFullStateRead"}}
    \cup {[k |-> "JvsPollResponse", opbtn |-> a, beams |-> b] : a, b \in ByteSamples}
    \cup {[k |-> "CoinCounterReadResponse", count |-> c] : c \in WordSamples}
    \cup {[k |-> "SliderInput", pressure |-> p] : p \in PressureArrays}
    \cup {[k |-> "SliderStateReadResponse", pressure |-> p] : p \in PressureArrays}
    \cup {[k |-> "SliderLedUpdate", rgb_data |-> d] : d \in RgbBuffers}
    \cup {[k |-> "LedUpdate", board |-> b, rgb_data |-> d] :
             b \in ByteSamples, d \in RgbBuffers}
    \cup {[k |-> "JvsFullStateReadResponse", opbtn |-> a, beams |-> b, pressure |-> p,
           coin_counter |-> c] :
             a, b \in ByteSamples, p \in PressureArrays, c \in WordSamples}

RawInputs ==
  {<<>>} \cup {<<t>> \o tail : t \in {0, JVS_FULL_STATE_READ_RESPONSE + 1, MaxByte},
                               tail \in {<<>>, <<1, 2, 3>>}}

\* Everything but the codec.
program == <<phase, lock, shared, pc, call, req, loop, ledvars, coin_log>>

\* message.serialize().
Serialize ==
  /\ codec.pc = "message"
  /\ codec' = [codec EXCEPT !.pc = "bytes", !.via = "serialized",
                            !.bytes = serialize(codec.msg)]
  /\ UNCHANGED program

\* The serialized bytes lose one or more bytes at their end.
Cut ==
  /\ codec.pc = "bytes"
  /\ codec.via = "serialized"
  /\ \E n \in 1..Len(codec.bytes) :
       codec' = [codec EXCEPT !.via = "cut",
                              !.bytes = SubSeq(codec.bytes, 1, Len(codec.bytes) - n)]
  /\ UNCHANGED program

\* ChuniMessage::deserialize(&bytes).
Deserialize ==
  /\ codec.pc = "bytes"
  /\ codec' = [codec EXCEPT !.pc = "decoded", !.out = deserialize(codec.bytes)]
  /\ UNCHANGED program

\* ---------------------------------------------------------- specifications
\* Every thread, every entry point.
Next ==
  \/ Attach
  \/ \E u \in Units : Request(u)
  \/ \E u \in Callers : Poll(u) \/ ReadCoinCounter(u) \/ Finish(u) \/ Return(u)
  \/ \E u \in Callers : Detach(u) \/ DetachLocked(u)
  \/ \E u \in Callers : SliderStop(u) \/ StopLocked(u) \/ StartLocked(u)
  \/ \E u \in Callers, cb \in Callbacks : SliderStart(u, cb)
  \/ \E l \in Loops : SliderLoop(l)
  \/ \E u \in Callers : LedInit(u) \/ SliderInit(u) \/ SliderInitLocked(u)
  \/ \E u \in Callers, board \in BoardArgs :
        \E rgb \in RgbArgs(board) : LedSetColors(u, board, rgb)
  \/ \E u \in Callers, rgb \in RgbArgs(2) : SliderSetLeds(u, rgb)
  \/ \E w \in Workers : WorkerLock(w) \/ WorkerSend(w)
  \/ \E u \in Callers : RequestReturns(u)
  \/ \E u \in Callers, message \in MessageKinds : SendWithRecovery(u, message)
  \/ \E u \in Callers : JvsInit(u) \/ JvsInitLocked(u) \/ JvsInitProbe(u)

Spec == Init /\ [][Next]_vars

\* The game's threads calling the JVS entry points and unloading the DLL.
NextJvs ==
  \/ Attach
  \/ \E u \in Callers : Request(u)
  \/ \E u \in Callers : Poll(u) \/ ReadCoinCounter(u) \/ Finish(u) \/ Return(u)
  \/ \E u \in Callers : Detach(u) \/ DetachLocked(u)

SpecJvs == Init /\ [][NextJvs]_vars

\* The game's threads starting and stopping the slider, and the slider
\* threads.
NextSlider ==
  \/ Attach
  \/ \E l \in Loops : Request(l)
  \/ \E u \in Callers : Return(u)
  \/ \E u \in Callers : SliderStop(u) \/ StopLocked(u) \/ StartLocked(u)
  \/ \E u \in Callers, cb \in Callbacks : SliderStart(u, cb)
  \/ \E l \in Loops : SliderLoop(l)

SpecSlider == Init /\ [][NextSlider]_vars

\* The game thread that drives the LEDs, initializing and writing the
\* boards, and the threads that send the LED updates.  (Every LED entry
\* point but chuni_io_slider_init is one step, so the calls of several
\* threads interleave as the calls of one thread follow each other.)
LedCallers == {1}

NextLed ==
  \/ Attach
  \/ \E u \in LedCallers : LedInit(u) \/ SliderInit(u) \/ SliderInitLocked(u) \/ Return(u)
  \/ \E u \in LedCallers, board \in BoardArgs :
        \E rgb \in RgbArgs(board) : LedSetColors(u, board, rgb)
  \/ \E u \in LedCallers, rgb \in RgbArgs(2) : SliderSetLeds(u, rgb)
  \/ \E w \in Workers : WorkerLock(w) \/ WorkerSend(w)

SpecLed == Init /\ [][NextLed]_vars

\* The game's threads calling send_message_with_recovery with a message of
\* any kind.
NextRequest ==
  \/ Attach
  \/ \E u \in Callers : Request(u)
  \/ \E u \in Callers : RequestReturns(u) \/ Return(u)
  \/ \E u \in Callers, message \in MessageKinds : SendWithRecovery(u, message)

SpecRequest == Init /\ [][NextRequest]_vars

\* The game's threads reading the coin counter and polling, with the
\* history of the coin counts kept.
InitCoin ==
  /\ Loaded
  /\ led_sent = SentOff
  /\ coin_log = [CoinLogOff EXCEPT !.on = TRUE]
  /\ codec = CodecIdle

NextCoin ==
  \/ Attach
  \/ \E u \in Callers : Request(u)
  \/ \E u \in Callers : Poll(u) \/ ReadCoinCounter(u) \/ Finish(u) \/ Return(u)

SpecCoin == InitCoin /\ [][NextCoin]_vars

\* The codec applied to a message or to bytes.
InitCodec ==
  /\ Loaded
  /\ led_sent = SentOff
  /\ coin_log = CoinLogOff
  /\ codec \in {[CodecIdle EXCEPT !.pc = "message", !.msg = m] : m \in CodecMessages}
               \cup {[CodecIdle EXCEPT !.pc = "bytes", !.via = "raw", !.bytes = b] :
                        b \in RawInputs}

NextCodec == Serialize \/ Cut \/ Deserialize

SpecCodec == InitCodec /\ [][NextCodec]_vars

\* The game's threads polling, initializing the JVS and the LED subsystem,
\* writing zeros to board 0 and unloading the DLL, and the threads that send
\* the LED updates: every user of the installed socket.
BlankBoard0 == [len |-> RgbLen(0), fill |-> 0]

NextSession ==
  \/ Attach
  \/ \E u \in Callers : Request(u)
  \/ \E u \in Callers : Poll(u) \/ Finish(u) \/ Return(u)
  \/ \E u \in Callers : JvsInit(u) \/ JvsInitLocked(u) \/ JvsInitProbe(u)
  \/ \E u \in Callers : Detach(u) \/ DetachLocked(u)
  \/ \E u \in Callers : LedInit(u)
  \/ \E u \in Callers : LedSetColors(u, 0, BlankBoard0)
  \/ \E w \in Workers : WorkerLock(w) \/ WorkerSend(w)

SpecSession == Init /\ [][NextSession]_vars

\* The game thread that starts and stops the slider and the slider threads,
\* whose callback may call chuni_io_slider_stop.
CallbackCallers == {1}

NextCallback ==
  \/ Attach
  \/ \E l \in Loops : Request(l)
  \/ \E u \in CallbackCallers : Return(u) \/ SliderStop(u) \/ StartLocked(u)
  \/ \E u \in CallbackCallers, cb \in Callbacks : SliderStart(u, cb)
  \/ \E u \in CallbackCallers \cup Loops : StopLocked(u)
  \/ \E l \in Loops : LoopCheck(l) \/ LoopIterHeld(l) \/ LoopDeliverHeld(l) \/ LoopSleep(l)
  \/ \E l \in Loops : CallbackReturns(l) \/ CallbackStops(l)

SpecCallback == Init /\ [][NextCallback]_vars

\* The game thread that drives the LEDs writing whole buffers to two boards
\* and unloading the DLL, and the threads that send the LED updates, with
\* the history of the LED updates kept.
NotifyBoards == {0, 1}
WholeBuffers(board) == {[len |-> RgbLen(board), fill |-> c] : c \in 0..MaxColor}

InitNotify ==
  /\ Loaded
  /\ led_sent = [SentOff EXCEPT !.on = TRUE]
  /\ coin_log = CoinLogOff
  /\ codec = CodecIdle

NextNotify ==
  \/ Attach
  \/ \E u \in LedCallers : LedInit(u) \/ Return(u)
  \/ \E u \in LedCallers, board \in NotifyBoards :
        \E rgb \in WholeBuffers(board) : LedSetColors(u, board, rgb)
  \/ \E w \in Workers : WorkerLock(w) \/ WorkerSend(w)
  \/ \E u \in LedCallers : Detach(u) \/ DetachLocked(u)

SpecNotify == InitNotify /\ [][NextNotify]_vars

\* ------------------------------------------------------------------ claims
\* The positions inside send_message_with_recovery.
ReqPcs == {"r_lock1", "r_xchg1", "r_conn", "r_inst", "r_lock2", "r_xchg2"}

\* The positions at which a thread blocks on GLOBAL_STATE.lock().
LockWaitPcs == {"s_lock", "p_lock", "d_lock", "r_lock1", "r_inst", "r_lock2"}

\* The request of thread u has returned to its caller.
Returned(u) == pc[u] = ReqDone(u) /\ req[u].msg # "none"

\* C1: a request whose first attempt fails and whose recovery succeeds has
\* called recover_connection once and send_message twice, the second time
\* on the socket its recovery installed, and returns what that retry gave.
C1_RetryAfterRecovery ==
  \A u \in Units :
    (Returned(u) /\ req[u].first = "failed" /\ req[u].recovered = "ok")
      => /\ req[u].reconnects = 1
         /\ req[u].sends = 2
         /\ req[u].on_installed
         /\ req[u].retry # "none"
         /\ (req[u].retry = "ok" => req[u].res # NoResp)

\* C2: a request calls recover_connection at most once and send_message at
\* most twice; when the recovery fails or the retry fails it returns None.
C2_AtMostOneRecovery ==
  \A u \in Units :
    /\ req[u].reconnects <= 1
    /\ req[u].sends <= 2
    /\ (Returned(u) /\ (req[u].recovered = "failed" \/ req[u].retry = "failed"))
         => req[u].res = NoResp

\* C2's case: a request has returned after its retry failed too.
C2_Witness ==
  \E u \in Callers :
    Returned(u) /\ req[u].retry = "failed" /\ req[u].sends = 2 /\ req[u].reconnects = 1

\* C3: a poll or coin-counter read called while another thread holds the
\* lock returns at once with zero, touches no socket and changes no state.
C3_ContendedReturnsDefault ==
  [][\A u \in Callers :
       (pc[u] = "idle" /\ pc'[u] # "idle" /\ call'[u].op \in {"poll", "coin"}
          /\ lock # Free)
         => /\ pc'[u] = "ret"
            /\ call'[u].opbtn = 0 /\ call'[u].beams = 0 /\ call'[u].total = 0
            /\ UNCHANGED <<lock, shared, req, loop>>]_vars

\* C3's case: a poll has returned zero without the lock while the cache
\* holds something else.
C3_Witness ==
  \E u \in Callers :
    /\ pc[u] = "ret" /\ call[u].op = "poll" /\ ~call[u].locked
    /\ call[u].opbtn = 0 /\ call[u].beams = 0
    /\ jvs_state.opbtn # 0 /\ jvs_state.beams # 0

\* C4: no entry point blocks on the lock while its holder is blocked in a
\* recv the peer never answers.
C4_NoCallerWaitsOnHungExchange ==
  \A u \in Callers :
    pc[u] \in LockWaitPcs => ~(lock # Free /\ pc[lock] = "r_hung")

\* C5: a poll whose request returned a JvsPollResponse (op, ir) returns
\* (op, ir) and leaves the cache holding (op, ir).
C5_SuccessfulPollStores ==
  [][\A u \in Callers :
       (pc[u] = "fin" /\ pc'[u] = "ret" /\ call[u].op = "poll"
          /\ IsPollResponse(req[u].res))
         => /\ jvs_state' = [opbtn |-> req[u].res.opbtn, beams |-> req[u].res.beams]
            /\ call'[u].opbtn = req[u].res.opbtn
            /\ call'[u].beams = req[u].res.beams]_vars

\* The request of caller u has failed: no reply, or one of another kind.
ExchangeFailed(u) ==
  /\ pc[u] = "fin"
  /\ \/ call[u].op = "poll" /\ ~IsPollResponse(req[u].res)
     \/ call[u].op = "coin" /\ ~IsCoinResponse(req[u].res)

\* C6: a poll or coin-counter read copies the cached values when it starts;
\* its request changes neither them nor the cache; and when the request has
\* failed the call returns those values and leaves the cache as it is.
C6_FailedExchangeKeepsCache ==
  [][\A u \in Callers :
       /\ (pc[u] = "idle" /\ pc'[u] # "idle" /\ call'[u].locked)
            => /\ call'[u].op = "poll"
                    => call'[u].opbtn = jvs_state.opbtn /\ call'[u].beams = jvs_state.beams
               /\ call'[u].op = "coin" => call'[u].total = coin_counter
       /\ ((pc[u] \in ReqPcs /\ pc'[u] # pc[u]) \/ (ExchangeFailed(u) /\ pc'[u] = "ret"))
            => /\ call'[u].opbtn = call[u].opbtn
               /\ call'[u].beams = call[u].beams
               /\ call'[u].total = call[u].total
               /\ jvs_state' = jvs_state
               /\ coin_counter' = coin_counter]_vars

\* C6's case: a poll whose request failed has returned the cached, non-zero
\* state.
C6_Witness ==
  \E u \in Callers :
    /\ pc[u] = "ret" /\ call[u].op = "poll" /\ call[u].outcome = "failed"
    /\ call[u].opbtn # 0 /\ call[u].opbtn = jvs_state.opbtn
    /\ call[u].beams = jvs_state.beams

\* C7: a slider start that finds the slider active spawns no thread and
\* leaves the stored callback and the flag as they are.
C7_StartWhileActiveIsNoop ==
  [][\A u \in Callers :
       (pc[u] = "s_lock" /\ pc'[u] # "s_lock" /\ slider_active)
         => /\ slider_callback' = slider_callback
            /\ slider_active'
            /\ {l \in Loops : pc'[l] # "off"} = Alive]_vars

\* C7's case: a start with another callback has returned early.
C7_Witness ==
  \E u \in Callers :
    /\ pc[u] = "ret" /\ call[u].op = "start" /\ call[u].noop
    /\ call[u].cb # slider_callback /\ slider_active /\ Cardinality(Alive) = 1

\* C8: at most one slider thread is alive.
C8_AtMostOneLoop == Cardinality(Alive) <= 1

\* C9: a slider thread that was running when chuni_io_slider_stop cleared
\* the flag ends at its next check of the flag.
C9_StoppedLoopTerminates ==
  [][\A l \in Loops :
       (pc[l] = "l_check" /\ pc'[l] # "l_check" /\ loop[l].doomed)
         => pc'[l] = "off"]_vars

\* C10: an iteration invokes the callback exactly once, with the cached
\* pressure; the cache is then the pressure of the SliderStateReadResponse
\* just received if there is one and is unchanged otherwise, and nothing
\* else ever writes the cached pressure.
C10_CallbackOncePerIteration ==
  [][/\ \A l \in Loops :
          /\ (pc[l] # "l_sleep" /\ pc'[l] = "l_sleep")
               => /\ loop'[l].cbn = 1
                  /\ loop'[l].cbarg = slider_pressure'
                  /\ slider_pressure' =
                       IF pc[l] = "l_deliver" /\ req[l].res.k = "SliderStateReadResponse"
                       THEN req[l].res.pressure
                       ELSE slider_pressure
          /\ (loop'[l].cbn # loop[l].cbn)
               => (pc'[l] = "l_sleep" \/ loop'[l].cbn = 0)
     /\ slider_pressure' # slider_pressure
          => \E l \in Loops :
               /\ pc[l] = "l_deliver" /\ pc'[l] = "l_sleep"
               /\ req[l].res.k = "SliderStateReadResponse"]_vars

\* C10's case: an iteration has stored a non-zero pressure and passed it to
\* the callback.
C10_Witness ==
  \E l \in Loops :
    pc[l] = "l_sleep" /\ loop[l].cbn = 1 /\ loop[l].cbarg # 0

\* C11: once the LED subsystem is initialized the three board buffers are
\* 159, 189 and 93 bytes long, whatever is written or initialized later.
C11_LedBufferLengthsFixed ==
  led_initialized
    => /\ led_board_states[0].len = 159
       /\ led_board_states[1].len = 189
       /\ led_board_states[2].len = 93

\* C11's case: board 0 has been written from a buffer shorter than 159
\* bytes, and board 2 has been written too.
C11_Witness ==
  /\ led_initialized
  /\ led_board_states[0].fill = Torn
  /\ led_board_states[2].fill = MaxColor
  /\ \E u \in Callers :
       pc[u] = "ret" /\ call[u].op = "led_set_colors" /\ call[u].outcome = "stored"

\* The worker threads the step spawns.
Spawned == {w \in Workers : pc[w] = "off" /\ pc'[w] # "off"}

\* Caller u's step is a call of chuni_io_led_set_colors.
LedWriteBy(u) == pc[u] = "idle" /\ pc'[u] = "ret" /\ call'[u].op = "led_set_colors"

\* C12: an LED write that names a board outside 0..2, or whose buffer is
\* not of the board's size, leaves the three buffers as they are and spawns
\* no thread for an LedUpdate.
C12_RejectedWriteChangesNothing ==
  [][\A u \in Callers : LedWriteBy(u) => \A board \in BoardArgs :
       \A rgb \in RgbArgs(board) \ {NullPtr} :
         (/\ LedSetColors(u, board, rgb)
          /\ \/ board \notin {0, 1, 2}
             \/ rgb.len # (CASE board = 0 -> 159 [] board = 1 -> 189 [] OTHER -> 93))
           => /\ led_board_states' = led_board_states
              /\ Spawned = {}]_vars

\* An LED write of a buffer of the board's size to one of the boards 0..2,
\* with the LED subsystem initialized.
ValidWrite(u, board, rgb) ==
  /\ led_initialized
  /\ board \in {0, 1, 2}
  /\ rgb # NullPtr /\ rgb.len = led_board_states[board].len
  /\ LedSetColors(u, board, rgb)

\* The step spawns one thread, which owns LedUpdate { board, rgb }.
SpawnsUpdate(board, rgb) ==
  /\ Cardinality(Spawned) = 1
  /\ \A w \in Spawned : led_task'[w] = [board |-> board, rgb |-> rgb]

\* C13 as stated: every such write installs the buffer and spawns one
\* thread owning the LedUpdate of that board and buffer, and the calling
\* thread touches neither the lock nor a socket when it returns.
C13_ValidWriteDispatches ==
  [][\A u \in Callers : LedWriteBy(u) => \A board \in BoardArgs :
       \A rgb \in RgbArgs(board) :
         ValidWrite(u, board, rgb)
           => /\ led_board_states'[board] = rgb
              /\ SpawnsUpdate(board, rgb)
              /\ pc'[u] = "ret"
              /\ UNCHANGED <<lock, socket, open>>]_vars

\* C13, amended: such a write takes effect only if try_lock succeeds; it
\* then installs the buffer and, when a socket is installed, spawns one
\* thread owning the LedUpdate of that board and buffer, and none when no
\* socket is installed.  A write whose try_lock fails changes nothing.  The
\* calling thread touches neither the lock nor a socket and returns.
C13_ValidWriteDispatchesIfLockedAndConnected ==
  [][\A u \in Callers : LedWriteBy(u) => \A board \in BoardArgs :
       \A rgb \in RgbArgs(board) :
         ValidWrite(u, board, rgb)
           => /\ IF lock = Free
                 THEN /\ led_board_states'[board] = rgb
                      /\ IF socket # 0 THEN SpawnsUpdate(board, rgb) ELSE Spawned = {}
                 ELSE /\ led_board_states' = led_board_states
                      /\ Spawned = {}
              /\ \A b \in Boards \ {board} : led_board_states'[b] = led_board_states[b]
              /\ pc'[u] = "ret"
              /\ UNCHANGED <<lock, socket, open>>]_vars

\* C13's case: a write to board 1 has returned and the thread it spawned
\* is about to send the buffer now stored for board 1.
C13_Witness ==
  \E u \in Callers, w \in Workers :
    /\ pc[u] = "ret" /\ call[u].op = "led_set_colors" /\ call[u].outcome = "stored"
    /\ pc[w] = "w_lock"
    /\ led_task[w] = [board |-> 1, rgb |-> led_board_states[1]]
    /\ led_board_states[1].fill = MaxColor

\* C14: a request whose first send() succeeded has gone on to recv() if
\* and only if its message is JvsPoll, CoinCounterRead, SliderStateRead,
\* Ping or JvsFullStateRead; a request of another kind returns after that
\* one send, with no reply, no recover_connection and no second send.
C14_WaitsIffResponseDefined ==
  \A u \in Callers :
    Returned(u)
      => IF req[u].msg \in {"JvsPoll", "CoinCounterRead", "SliderStateRead", "Ping",
                            "JvsFullStateRead"}
         THEN ~req[u].no_wait
         ELSE /\ req[u].res = NoResp
              /\ req[u].no_wait => (req[u].sends = 1 /\ req[u].reconnects = 0)

\* C15: as long as the counts the peer has reported never decreased, a
\* chuni_io_jvs_read_coin_counter returns no less than the same thread's
\* previous one returned.
C15_CoinReadsNonDecreasing ==
  [][\A u \in Callers :
       (pc[u] # "ret" /\ pc'[u] = "ret" /\ call'[u].op = "coin" /\ coin_log'.mono)
         => call'[u].total >= coin_log.returned[u]]_vars

\* The (opbtn, beams) a JvsPollResponse returned to caller u carries.
PairReceived(u) ==
  IF pc[u] = "fin" /\ IsPollResponse(req[u].res)
  THEN {<<req[u].res.opbtn, req[u].res.beams>>}
  ELSE {}

\* C16: the cached (opbtn, beams) only ever changes to the pair of one
\* JvsPollResponse, and the pair in a poll's out-parameters only ever
\* changes to (0, 0), to the cached pair or to the pair of the one
\* JvsPollResponse the poll received: no pair mixes two responses.
C16_PollPairNotTorn ==
  [][\A u \in Callers :
       /\ <<call'[u].opbtn, call'[u].beams>> # <<call[u].opbtn, call[u].beams>>
            => <<call'[u].opbtn, call'[u].beams>>
                 \in {<<0, 0>>, <<jvs_state.opbtn, jvs_state.beams>>} \cup PairReceived(u)
       /\ jvs_state' # jvs_state
            => \E v \in Callers :
                 /\ pc[v] = "fin" /\ pc'[v] = "ret" /\ call[v].op = "poll"
                 /\ <<jvs_state'.opbtn, jvs_state'.beams>> \in PairReceived(v)]_vars

\* C16's case: two concurrent polls have returned the pairs of two
\* different responses, (MaxBits, 0) and (0, MaxBits).
C16_Witness ==
  \E u, v \in Callers :
    /\ pc[u] = "ret" /\ call[u].op = "poll" /\ call[u].outcome = "stored"
    /\ pc[v] = "ret" /\ call[v].op = "poll" /\ call[v].outcome = "stored"
    /\ call[u].opbtn = MaxBits /\ call[u].beams = 0
    /\ call[v].opbtn = 0 /\ call[v].beams = MaxBits

\* C17: once DLL_PROCESS_DETACH has run its cleanup no socket is installed
\* and none is open, whatever was in flight when it ran.
C17_NoSessionAfterDetach ==
  (phase = "detached" /\ \A u \in Callers : pc[u] # "d_lock")
    => (socket = 0 /\ open = {})

\* C18: a poll or coin-counter read that takes the lock and finds no
\* socket installed goes on to send_message_with_recovery, which connects.
C18_CallWithoutSessionConnects ==
  [][\A u \in Callers :
       (pc[u] = "idle" /\ pc'[u] # "idle" /\ call'[u].op \in {"poll", "coin"}
          /\ call'[u].locked /\ socket = 0)
         => pc'[u] \in ReqPcs]_vars

\* C19: deserialize(serialize(m)) is Ok(m) for every message m, whatever
\* the length of its RGB buffer.
C19_RoundTrip ==
  (codec.pc = "decoded" /\ codec.via = "serialized")
    => codec.out = Ok(codec.msg)

\* The message has no RGB buffer longer than a u8 can count.
Encodable(m) ==
  m.k \in {"SliderLedUpdate", "LedUpdate"} => Len(m.rgb_data) <= 255

\* C20: deserialize returns an error, and no message, for empty input
\* ("Empty data"), for input whose first byte is not 0x01..0x0D ("Unknown
\* message type") and for the serialized bytes of a message with one or
\* more bytes removed from their end (when bytes remain, the read_exact
\* error).
C20_DeserializeRejects ==
  codec.pc = "decoded"
    => /\ codec.bytes = <<>> => codec.out = Err("Empty data")
       /\ (codec.bytes # <<>> /\ codec.bytes[1] \notin 1..13)
            => codec.out = Err("Unknown message type")
       /\ (codec.via = "cut" /\ Encodable(codec.msg))
            => /\ ~codec.out.ok /\ codec.out.msg = NoResp
               /\ codec.bytes # <<>> => codec.out = Err("UnexpectedEof")

\* C20's case: a LedUpdate's bytes with the length prefix and fewer bytes
\* after it than it declares have been rejected.
C20_Witness ==
  /\ codec.pc = "decoded" /\ codec.via = "cut"
  /\ codec.msg.k = "LedUpdate"
  /\ Len(codec.bytes) > 3 /\ codec.bytes[3] = 255 /\ Len(codec.bytes) < 3 + 255
  /\ ~codec.out.ok

\* The positions at which a thread is inside a transport call on the
\* installed socket: about to call send_message, or blocked in its recv.
ExchangePcs == {"r_xchg1", "r_xchg2", "r_hung"}

\* C22: no thread holds the GLOBAL_STATE lock while it is inside a transport
\* call (send, recv); the lock is released before the call begins.
C22_NoTransportUnderLock ==
  \A u \in Units : pc[u] \in ExchangePcs => lock # u

\* C24: at most one socket is open at any moment, also while threads run
\* recover_connection.
C24_OneEndpointOpen == Cardinality(open) <= 1

\* C23: send_message_fire_and_forget takes the lock once and, with a socket
\* installed, calls send() once; whether send() fails or no socket is
\* installed the thread ends there, its message dropped: it never connects,
\* installs or closes a socket, never sends again, never waits for a reply,
\* and leaves the cached state as it is.
C23_NotifySendsAtMostOnce ==
  [][\A w \in Workers :
       (pc[w] \in {"w_lock", "w_send"} /\ pc'[w] # pc[w])
         => /\ UNCHANGED <<shared, led_initialized, led_board_states, req>>
            /\ pc[w] = "w_lock" => pc'[w] = (IF socket # 0 THEN "w_send" ELSE "off")
            /\ pc[w] = "w_send" => pc'[w] = "off"
            /\ pc'[w] = "off" => led_task'[w] = NoTask]_vars

\* C23's case: the DLL has been unloaded with an LedUpdate of board 0 on its
\* way; the thread found no socket and ended, nothing of board 0 was ever
\* sent, no socket is installed or open and the buffer written is stored.
C23_Witness ==
  /\ led_sent.dropped = "no socket"
  /\ led_sent.last[0] = NoBuf
  /\ led_board_states[0].fill = MaxColor
  /\ socket = 0 /\ open = {}
  /\ \A w \in Workers : pc[w] = "off"

\* The positions at which a thread is inside a transport call on the
\* installed socket: a request's exchange, chuni_io_jvs_init's probe or
\* send_message_fire_and_forget's send.
SessionPcs == ExchangePcs \cup {"j_probe", "w_send"}

\* C25: a thread inside a transport call on the installed socket holds the
\* lock, so no other thread is inside one; the socket is installed and
\* open, and stays so until the call has returned: no other thread closes
\* or replaces it, and none touches the thread's request or its reply.  A
\* reply is stored only by the thread that sent the request, in the step of
\* its own exchange.
C25_ExchangesExclusive ==
  [][/\ \A u \in Threads :
          pc[u] \in SessionPcs
            => /\ lock = u
               /\ socket # 0 /\ socket \in open
               /\ \A v \in Threads \ {u} : pc[v] \notin SessionPcs
               /\ pc'[u] = pc[u]
                    => /\ socket' = socket /\ socket \in open'
                       /\ u \in Units => req'[u] = req[u]
     /\ \A u \in Units :
          (req'[u].res # req[u].res /\ req'[u].res # NoResp)
            => /\ pc[u] \in {"r_xchg1", "r_xchg2"} /\ lock = u
               /\ req'[u].res \in Replies(req[u].msg)
     /\ socket # 0 => socket \in open]_vars

\* C25's case: a poll is blocked in recv() for its reply while another
\* poll's recover_connection, with its new socket connected, waits to close
\* the installed one and a thread waits to send an LedUpdate on it.
C25_Witness ==
  \E u, v \in Callers, w \in Workers :
    /\ pc[u] = "r_hung" /\ call[u].op = "poll"
    /\ pc[v] = "r_inst" /\ Pending(v) \in open
    /\ pc[w] = "w_lock"
    /\ lock = u /\ socket \in open

\* C27: once every LedUpdate dispatched has been sent, none dropped, with
\* the socket installed all along, the last LedUpdate sent for a board
\* carries the buffer stored for that board.
C27_UpdatesSentInOrder ==
  (/\ phase = "attached" /\ socket # 0
   /\ led_sent.dropped = "none"
   /\ \A w \in Workers : pc[w] = "off")
    => \A b \in Boards :
         led_sent.last[b] # NoBuf => led_sent.last[b] = led_board_states[b]

\* C29: when chuni_io_led_init has returned S_OK the LED subsystem is
\* initialized: the flag is set and the three buffers are sized.
C29_LedInitSuccessMeansInitialized ==
  \A u \in Callers :
    (pc[u] = "ret" /\ call[u].op = "led_init" /\ call[u].outcome = "S_OK")
      => led_initialized /\ led_board_states = ZeroedBoards

\* The positions at which a thread calls the blocking GLOBAL_STATE.lock().
LockPcs ==
  LockWaitPcs \cup {"i_lock", "j_lock", "w_lock", "l_check", "l_iter", "l_deliver"}

\* C21: no thread calls GLOBAL_STATE.lock() while it holds the lock.
C21_NoLockWhileHolding ==
  \A u \in Threads : pc[u] \in LockPcs => lock # u

\* C26: the polling thread does not hold the lock while the callback runs,
\* nor while an entry point the callback has called waits for the lock.
C26_CallbackOutsideLock ==
  \A l \in Loops :
    (pc[l] \in {"l_call", "p_lock", "l_back"} /\ slider_callback # 0) => lock # l

\* C28: a polling thread that was alive when chuni_io_slider_stop cleared
\* the flag invokes the callback at most once from then to its next check
\* of the flag; at that check it ends unless a later start has set the flag
\* again; and a thread that has ended invokes nothing.
C28_AtMostOneCallbackAfterStop ==
  [][\A l \in Loops :
       /\ loop'[l].late <= 1
       /\ (pc[l] = "l_check" /\ pc'[l] # "l_check" /\ loop[l].doomed /\ ~slider_active)
            => pc'[l] = "off"
       /\ (loop[l].doomed /\ loop'[l].late > loop[l].late)
            => pc'[l] \in {"l_sleep", "p_lock"}
       /\ (pc[l] = "off" /\ pc'[l] = "off") => loop'[l] = loop[l]]_vars

\* C28's case: the stop has returned; a thread it found in its iteration has
\* invoked the callback once since and comes to its check, the flag cleared.
C28_Witness ==
  \E l \in Loops, u \in Callers :
    /\ pc[l] = "l_sleep" /\ loop[l].doomed /\ loop[l].late = 1
    /\ ~slider_active /\ pc[u] = "idle"
====
